---- MODULE Spec2Model ----
(***************************************************************************)
(* A model of the growable crate (src/src/lib.rs): Growable, a raw heap    *)
(* block; Reusable<T>, a typed box living in such a block; GrowablePool,   *)
(* a VecDeque of idle blocks.  The global allocator is modelled as a map   *)
(* from addresses to the layout of the live allocation at that address.    *)
(***************************************************************************)
EXTENDS Integers, Sequences, FiniteSets, TLC

\* ------------------------------------------------------------------ bounds
MaxAddr == 4        \* addresses the allocator can hand out
MaxVals == 3        \* values that are ever constructed
MaxBlocks == 1      \* standalone Growable objects held by the caller
MaxHandles == 2     \* Reusable objects held by the caller
MaxPoolCap == 2     \* largest GrowablePoolBuilder::with_capacity argument

Addr == 1 .. MaxAddr
Dangling == 0
Garbage == 0
NoAlloc == [len |-> 0, align |-> 0]
NoPool == [built |-> FALSE]

\* A value type T is size_of::<T>() and align_of::<T>().
Type(size, align) == [size |-> size, align |-> align]

\* The types consumed into standalone blocks: (), [u16; 0], u8, u16, [u8; 4].
Types == {Type(0, 1), Type(0, 2), Type(1, 1), Type(2, 2), Type(4, 1)}

\* The types allocated from a pool: (), u16, [u8; 4].
PoolTypes == {Type(0, 1), Type(2, 2), Type(4, 1)}

\* Arguments of Growable::with_capacity made by the caller.
CapLens == {0, 2}
CapAligns == {1, 2}

\* Alignments that are not a power of two.
BadAligns == {0, 3}

\* A GrowablePoolBuilder after its setters.
Builder(len, per_growable_len, per_growable_ptr_alignment, overgrow) ==
    [len |-> len,
     per_growable_len |-> per_growable_len,
     per_growable_ptr_alignment |-> per_growable_ptr_alignment,
     overgrow |-> overgrow]

\* The builders used: every capacity, blocks of 2 bytes aligned to 2.
Builders == {Builder(n, 2, 2, og) : n \in 0 .. MaxPoolCap, og \in BOOLEAN}

\* Two of them: one block kept and no overgrow, on demand with overgrow.
FewBuilders == {Builder(1, 2, 2, FALSE), Builder(0, 2, 2, TRUE)}

Max(a, b) == IF a >= b THEN a ELSE b

IsPowerOfTwo(n) == n \in {1, 2, 4, 8, 16}

\* isize::MAX, the largest size of a Layout, on a machine whose usize has
\* 4 bits.
IsizeMax == 7

\* Layout::from_size_align(len, align).is_ok(): align is a power of two and
\* len rounded up to align does not exceed isize::MAX.
ValidLayout(layout) ==
    /\ IsPowerOfTwo(layout.align)
    /\ layout.len <= IsizeMax - (layout.align - 1)

\* Lengths up to the largest there is.
BigLens == {0, IsizeMax}

VARIABLES
    sys,        \* the allocator and the memory: heap, mem, drops, calls, faults,
                \* and data, what a value compares equal by
    blocks,     \* standalone Growable objects, a sequence
    handles,    \* Reusable objects, a set (their values differ)
    moved,      \* values moved out by free_move and owned by the caller
    pool,       \* the GrowablePool, or NoPool
    clone,      \* the GrowablePool made by pool.clone(), or NoPool
    pc,         \* "idle", or "retry" inside allocate after the top-up
    arg,        \* the value allocate is about to place when pc = "retry"
    nextVal,    \* the next value to be constructed
    op          \* the operation that ran last

vars == <<sys, blocks, handles, moved, pool, clone, pc, arg, nextVal, op>>

\* --------------------------------------------------------------- allocator
\* Global.deallocate(ptr, layout): the allocation at ptr must be live and
\* must have been made with this layout.
Deallocate(w, ptr, layout) ==
    IF ptr \notin Addr \/ w.heap[ptr] = NoAlloc
    THEN [w EXCEPT !.faults = @ \cup {"dealloc_dead"}]
    ELSE [w EXCEPT !.heap[ptr] = NoAlloc,
                   !.mem[ptr] = Garbage,
                   !.faults = IF w.heap[ptr] = layout THEN @
                              ELSE @ \cup {"dealloc_layout"}]

\* Global.allocate(layout) returning the address p.
Allocate(w, layout, p) ==
    [w EXCEPT !.heap[p] = layout,
              !.mem[p] = Garbage,
              !.calls = @ + 1,
              !.faults = IF ValidLayout(layout) THEN @
                         ELSE @ \cup {"alloc_layout"}]

\* Global.grow(ptr, old, new): the allocation moves to p (p = ptr when it
\* grows in place) and keeps its bytes.
GlobalGrow(w, ptr, old, new, p) ==
    IF ptr \notin Addr \/ w.heap[ptr] = NoAlloc
    THEN [w EXCEPT !.faults = @ \cup {"grow_dead"}, !.calls = @ + 1]
    ELSE [w EXCEPT !.heap = [a \in Addr |-> IF a = p THEN new
                                            ELSE IF a = ptr THEN NoAlloc
                                            ELSE w.heap[a]],
                   !.mem = [a \in Addr |-> IF a = p THEN w.mem[ptr]
                                           ELSE IF a = ptr THEN Garbage
                                           ELSE w.mem[a]],
                   !.calls = @ + 1,
                   !.faults = (IF w.heap[ptr] = old /\ new.len >= old.len THEN @
                               ELSE @ \cup {"grow_layout"})
                              \cup (IF ValidLayout(new) THEN {}
                                    ELSE {"alloc_layout"})]

\* ---------------------------------------------------------------- Growable
Growable(len, ptr_alignment, ptr) ==
    [len |-> len, ptr_alignment |-> ptr_alignment, ptr |-> ptr]

\* with_capacity that checks the alignment only when it allocates.
PanicsWhenAllocating(len, ptr_alignment) ==
    len # 0 /\ ~IsPowerOfTwo(ptr_alignment)

\* Growable::with_capacity panics on an alignment that is not a power of two
\* and on a length that overflows when rounded up to the alignment:
\* Layout::from_size_align fails for len != 0, the assert for len == 0.
WithCapacityPanics(len, ptr_alignment) ==
    IF len # 0
    THEN ~ValidLayout([len |-> len, align |-> ptr_alignment])
    ELSE ~IsPowerOfTwo(ptr_alignment)

\* with_capacity that asks the allocator also for a block of no bytes.
WithCapacityAlways(w, len, ptr_alignment, p) ==
    [g |-> Growable(len, ptr_alignment, p),
     w |-> Allocate(w, [len |-> len, align |-> ptr_alignment], p)]

\* Growable::with_capacity(len, ptr_alignment), the allocator returning p.
WithCapacity(w, len, ptr_alignment, p) ==
    IF len # 0
    THEN [g |-> Growable(len, ptr_alignment, p),
          w |-> Allocate(w, [len |-> len, align |-> ptr_alignment], p)]
    ELSE [g |-> Growable(len, ptr_alignment, Dangling), w |-> w]

\* A drop that releases every allocation as bytes aligned to 1.
DropGrowableAsBytes(w, g) ==
    IF g.len # 0
    THEN Deallocate(w, g.ptr, [len |-> g.len, align |-> 1])
    ELSE w

\* Drop for Growable.
DropGrowable(w, g) ==
    IF g.len # 0
    THEN Deallocate(w, g.ptr, [len |-> g.len, align |-> g.ptr_alignment])
    ELSE w

\* A clone that copies the fields, the pointer included.
CloneGrowableShallow(w, g, p) == [g |-> g, w |-> w]

\* Clone for Growable.
CloneGrowable(w, g, p) == WithCapacity(w, g.len, g.ptr_alignment, p)

\* grow that reallocates to the requested length (no cmp::max).
GrowToRequested(w, g, len, ptr_alignment, p) ==
    IF g.len = 0
    THEN LET r == WithCapacity(w, len, ptr_alignment, p)
         IN  [g |-> r.g, w |-> DropGrowable(r.w, g)]
    ELSE IF g.len >= len /\ g.ptr_alignment >= ptr_alignment
    THEN [g |-> g, w |-> w]
    ELSE LET layout_curr == [len |-> g.len, align |-> g.ptr_alignment]
             layout == [len |-> len, align |-> ptr_alignment]
         IN  [g |-> Growable(len, ptr_alignment, p),
              w |-> Allocate(Deallocate(w, g.ptr, layout_curr), layout, p)]

\* grow that takes a block for sufficient when its length or its alignment
\* is (|| for &&).
GrowOrFits(w, g, len, ptr_alignment, p) ==
    IF g.len = 0
    THEN LET r == WithCapacity(w, len, ptr_alignment, p)
         IN  [g |-> r.g, w |-> DropGrowable(r.w, g)]
    ELSE IF g.len >= len \/ g.ptr_alignment >= ptr_alignment
    THEN [g |-> g, w |-> w]
    ELSE LET nlen == Max(g.len, len)
             layout_curr == [len |-> g.len, align |-> g.ptr_alignment]
             layout == [len |-> nlen, align |-> ptr_alignment]
         IN  [g |-> Growable(nlen, ptr_alignment, p),
              w |-> Allocate(Deallocate(w, g.ptr, layout_curr), layout, p)]

\* grow that reallocates with the requested alignment and keeps recording
\* the old one.
GrowStaleAlignment(w, g, len, ptr_alignment, p) ==
    IF g.len = 0
    THEN LET r == WithCapacity(w, len, ptr_alignment, p)
         IN  [g |-> r.g, w |-> DropGrowable(r.w, g)]
    ELSE IF g.len >= len /\ g.ptr_alignment >= ptr_alignment
    THEN [g |-> g, w |-> w]
    ELSE LET nlen == Max(g.len, len)
             layout_curr == [len |-> g.len, align |-> g.ptr_alignment]
             layout == [len |-> nlen, align |-> ptr_alignment]
             w2 == IF layout.align = layout_curr.align
                   THEN GlobalGrow(w, g.ptr, layout_curr, layout, p)
                   ELSE Allocate(Deallocate(w, g.ptr, layout_curr), layout, p)
         IN  [g |-> Growable(nlen, g.ptr_alignment, p), w |-> w2]

\* grow that takes a block for sufficient by its length alone.
GrowLenOnly(w, g, len, ptr_alignment, p) ==
    IF g.len = 0
    THEN LET r == WithCapacity(w, len, ptr_alignment, p)
         IN  [g |-> r.g, w |-> DropGrowable(r.w, g)]
    ELSE IF g.len >= len
    THEN [g |-> g, w |-> w]
    ELSE LET nlen == Max(g.len, len)
             layout_curr == [len |-> g.len, align |-> g.ptr_alignment]
             layout == [len |-> nlen, align |-> ptr_alignment]
             w2 == IF layout.align = layout_curr.align
                   THEN GlobalGrow(w, g.ptr, layout_curr, layout, p)
                   ELSE Allocate(Deallocate(w, g.ptr, layout_curr), layout, p)
         IN  [g |-> Growable(nlen, ptr_alignment, p), w |-> w2]

\* grow that reallocates to at least twice the length (amortised growth).
GrowDoubling(w, g, len, ptr_alignment, p) ==
    IF g.len = 0
    THEN LET r == WithCapacity(w, len, ptr_alignment, p)
         IN  [g |-> r.g, w |-> DropGrowable(r.w, g)]
    ELSE IF g.len >= len /\ g.ptr_alignment >= ptr_alignment
    THEN [g |-> g, w |-> w]
    ELSE LET nlen == Max(g.len + g.len, len)
             layout_curr == [len |-> g.len, align |-> g.ptr_alignment]
             layout == [len |-> nlen, align |-> ptr_alignment]
             w2 == IF layout.align = layout_curr.align
                   THEN GlobalGrow(w, g.ptr, layout_curr, layout, p)
                   ELSE Allocate(Deallocate(w, g.ptr, layout_curr), layout, p)
         IN  [g |-> Growable(nlen, ptr_alignment, p), w |-> w2]

\* grow that reallocates a block that is not empty, sufficient or not.
GrowNoFit(w, g, len, ptr_alignment, p) ==
    IF g.len = 0
    THEN LET r == WithCapacity(w, len, ptr_alignment, p)
         IN  [g |-> r.g, w |-> DropGrowable(r.w, g)]
    ELSE LET nlen == Max(g.len, len)
             layout_curr == [len |-> g.len, align |-> g.ptr_alignment]
             layout == [len |-> nlen, align |-> ptr_alignment]
             w2 == IF layout.align = layout_curr.align
                   THEN GlobalGrow(w, g.ptr, layout_curr, layout, p)
                   ELSE Allocate(Deallocate(w, g.ptr, layout_curr), layout, p)
         IN  [g |-> Growable(nlen, ptr_alignment, p), w |-> w2]

\* Growable::grow(len, ptr_alignment), the allocator returning p if asked.
Grow(w, g, len, ptr_alignment, p) ==
    IF g.len = 0
    THEN LET r == WithCapacity(w, len, ptr_alignment, p)
         IN  [g |-> r.g, w |-> DropGrowable(r.w, g)]
    ELSE IF g.len >= len /\ g.ptr_alignment >= ptr_alignment
    THEN [g |-> g, w |-> w]
    ELSE LET nlen == Max(g.len, len)
             layout_curr == [len |-> g.len, align |-> g.ptr_alignment]
             layout == [len |-> nlen, align |-> ptr_alignment]
             w2 == IF layout.align = layout_curr.align
                   THEN GlobalGrow(w, g.ptr, layout_curr, layout, p)
                   ELSE Allocate(Deallocate(w, g.ptr, layout_curr), layout, p)
         IN  [g |-> Growable(nlen, ptr_alignment, p), w |-> w2]

\* The allocator is first-fit: a request is answered with the lowest address
\* that is not allocated (addresses are interchangeable).
FreeAddrs(w) == {a \in Addr : w.heap[a] = NoAlloc}

FirstFit(w) == {a \in FreeAddrs(w) : \A b \in FreeAddrs(w) : a <= b}

\* The address the allocator may return to an operation on block g: the
\* first fit, or the block's own, which grow releases or extends.
Avail(w, g, p) ==
    \/ p \in FirstFit(w)
    \/ g.len # 0 /\ g.ptr = p

\* ---------------------------------------------------------------- Reusable
\* ty is the type parameter T; val is the value the handle was made with.
Reusable(g, ty, v) ==
    [len |-> g.len, ptr_alignment |-> g.ptr_alignment, ptr |-> g.ptr,
     ty |-> ty, val |-> v]

\* ptr_raw.write(t): sound only into a live allocation that is large enough
\* and aligned enough for T; a zero-sized T writes no byte.
Write(w, ptr, ty, v) ==
    IF ty.size = 0 THEN w
    ELSE IF /\ ptr \in Addr
            /\ w.heap[ptr].len >= ty.size
            /\ w.heap[ptr].align >= ty.align
    THEN [w EXCEPT !.mem[ptr] = v]
    ELSE [w EXCEPT !.faults = @ \cup {"bad_write"}]

\* Growable::copy(t): mem::forget(self) leaves the allocation to the handle.
Copy(w, g, ty, v) ==
    [h |-> Reusable(g, ty, v), w |-> Write(w, g.ptr, ty, v)]

\* Growable::consume(t).
Consume(w, g, ty, v, p) ==
    LET r == Grow(w, g, ty.size, ty.align, p)
    IN  Copy(r.w, r.g, ty, v)

\* Deref for Reusable: the value found at ptr; a zero-sized T reads no byte.
Deref(w, h) ==
    IF h.ty.size = 0 THEN h.val
    ELSE IF h.ptr \in Addr THEN w.mem[h.ptr]
    ELSE Garbage

\* A block described by the type of the value instead of the stored fields.
BlockOfType(h) == Growable(h.ty.size, h.ty.align, h.ptr)

\* The block a handle gives back: same len, ptr_alignment and ptr.
BlockOf(h) == Growable(h.len, h.ptr_alignment, h.ptr)

\* ptr::drop_in_place: the destructor of the value found at the address runs.
DropInPlace(w, h) ==
    LET v == Deref(w, h)
        w1 == IF v = Garbage
              THEN [w EXCEPT !.faults = @ \cup {"drop_garbage"}]
              ELSE [w EXCEPT !.drops[v] = @ + 1]
    IN  IF h.ty.size # 0 /\ h.ptr \in Addr
        THEN [w1 EXCEPT !.mem[h.ptr] = Garbage]
        ELSE w1

\* Reusable::free_in_place.
FreeInPlace(w, h) == [g |-> BlockOf(h), w |-> DropInPlace(w, h)]

\* A drop that runs the destructor and leaves the allocation live.
DropReusableLeaks(w, h) == DropInPlace(w, h)

\* Drop for Reusable: the Growable free_in_place returns is dropped at once.
DropReusable(w, h) ==
    LET r == FreeInPlace(w, h)
    IN  DropGrowable(r.w, r.g)

\* Free without mem::forget(this): the handle is dropped after free_in_place.
FreeNoForget(w, h) ==
    LET r == FreeInPlace(w, h)
    IN  [g |-> r.g, w |-> DropReusable(r.w, h)]

\* Reusable::free: free_in_place, then mem::forget(this).
Free(w, h) == FreeInPlace(w, h)

\* free_move that runs the destructor in place before giving the value away.
FreeMoveDrops(w, h) ==
    [t |-> Deref(w, h), g |-> BlockOf(h), w |-> DropInPlace(w, h)]

\* free_move that gives back a block made for the type of the value.
FreeMoveTypeBlock(w, h) ==
    [t |-> Deref(w, h),
     g |-> Growable(h.ty.size, h.ty.align, h.ptr),
     w |-> IF h.ty.size # 0 /\ h.ptr \in Addr
           THEN [w EXCEPT !.mem[h.ptr] = Garbage]
           ELSE w]

\* Reusable::free_move: ptr::read moves the value out, no destructor runs.
FreeMove(w, h) ==
    [t |-> Deref(w, h),
     g |-> BlockOf(h),
     w |-> IF h.ty.size # 0 /\ h.ptr \in Addr
           THEN [w EXCEPT !.mem[h.ptr] = Garbage]
           ELSE w]

\* T::clone(src): the new value v compares equal to the value src.
CloneValue(w, src, v) ==
    IF src = Garbage
    THEN [w EXCEPT !.faults = @ \cup {"clone_garbage"}]
    ELSE [w EXCEPT !.data[v] = w.data[src]]

\* A clone into a block as large as the one of the original.
CloneReusableSameBlock(w, h, v, p) ==
    LET g == WithCapacity(w, h.len, h.ptr_alignment, p)
    IN  Consume(CloneValue(g.w, Deref(w, h), v), g.g, h.ty, v, p)

\* Clone for Reusable: a block made for T, then the clone v of the value
\* the handle dereferences to is consumed into it.
CloneReusable(w, h, v, p) ==
    LET g == WithCapacity(w, h.ty.size, h.ty.align, p)
    IN  Consume(CloneValue(g.w, Deref(w, h), v), g.g, h.ty, v, p)

\* replace(this, u).
Replace(w, h, ty, v, p) ==
    LET r == Free(w, h)
    IN  Consume(r.w, r.g, ty, v, p)


\* ------------------------------------------------------------ GrowablePool
\* VecDeque::resize(new_len, value) on an empty deque: new_len - 1 clones of
\* value, then value itself; with new_len = 0 value is dropped.  ps are the
\* addresses the allocator returns to the clones.
RECURSIVE Clones(_, _, _, _)
Clones(w, value, n, ps) ==
    IF n = 0 THEN [vec |-> <<>>, w |-> w]
    ELSE LET c == CloneGrowable(w, value, ps[1])
             r == Clones(c.w, value, n - 1, Tail(ps))
         IN  [vec |-> <<c.g>> \o r.vec, w |-> r.w]

Resize(w, new_len, value, ps) ==
    IF new_len = 0
    THEN [vec |-> <<>>, w |-> DropGrowable(w, value)]
    ELSE LET r == Clones(w, value, new_len - 1, ps)
         IN  [vec |-> Append(r.vec, value), w |-> r.w]

\* GrowablePoolBuilder::build; cfg is the builder, ps the addresses the
\* allocator returns, the first of them to the default block.
Build(w, cfg, ps) ==
    LET d == WithCapacity(w, cfg.per_growable_len, cfg.per_growable_ptr_alignment, ps[1])
        r == Resize(d.w, cfg.len, d.g, Tail(ps))
    IN  [pool |-> [built |-> TRUE,
                   len |-> cfg.len,
                   per_growable_len |-> cfg.per_growable_len,
                   per_growable_ptr_alignment |-> cfg.per_growable_ptr_alignment,
                   overgrow |-> cfg.overgrow,
                   vec |-> r.vec],
         w |-> r.w]

\* A clone that copies the fields of the pool, the idle blocks included.
ClonePoolShallow(w, pl, ps) == [pool |-> pl, w |-> w]

\* Clone for GrowablePool: a build from the pool's own configuration.
ClonePoolOp(w, pl, ps) ==
    Build(w, [len |-> pl.len,
              per_growable_len |-> pl.per_growable_len,
              per_growable_ptr_alignment |-> pl.per_growable_ptr_alignment,
              overgrow |-> pl.overgrow], ps)

\* GrowablePool::len.
PoolLen(pl) == Len(pl.vec)

\* A top-up of one block more than the capacity.
TopUpOneMore(pl) == pl.len + 1

\* A top-up that forgets the pool of capacity 0.
TopUpNoMax(pl) == pl.len

\* The number of blocks allocate adds to an exhausted pool.
TopUp(pl) == Max(pl.len, 1)

\* allocate taking the block at the back (pop_back).
AllocatePopBack(w, pl, ty, v, p) ==
    LET n == Len(pl.vec)
        r == Consume(w, pl.vec[n], ty, v, p)
    IN  [pool |-> [pl EXCEPT !.vec = SubSeq(pl.vec, 1, n - 1)], h |-> r.h, w |-> r.w]

\* GrowablePool::allocate, the Some arm: pop_front, then consume.
AllocatePop(w, pl, ty, v, p) ==
    LET r == Consume(w, Head(pl.vec), ty, v, p)
    IN  [pool |-> [pl EXCEPT !.vec = Tail(pl.vec)], h |-> r.h, w |-> r.w]

\* GrowablePool::allocate, the None arm up to the recursive call.
AllocateRefill(w, pl, ps) ==
    LET d == WithCapacity(w, pl.per_growable_len, pl.per_growable_ptr_alignment, ps[1])
        r == Resize(d.w, TopUp(pl), d.g, Tail(ps))
    IN  [pool |-> [pl EXCEPT !.vec = r.vec], w |-> r.w]

\* free that discards only above the capacity (> for >=).
PoolFreeOffByOne(w, pl, h) ==
    IF ~pl.overgrow /\ Len(pl.vec) > pl.len
    THEN [pool |-> pl, w |-> DropReusable(w, h)]
    ELSE LET r == Free(w, h)
         IN  [pool |-> [pl EXCEPT !.vec = <<r.g>> \o pl.vec], w |-> r.w]

\* free that discards at capacity whatever the overgrow flag.
PoolFreeNoOvergrow(w, pl, h) ==
    IF Len(pl.vec) >= pl.len
    THEN [pool |-> pl, w |-> DropReusable(w, h)]
    ELSE LET r == Free(w, h)
         IN  [pool |-> [pl EXCEPT !.vec = <<r.g>> \o pl.vec], w |-> r.w]

\* GrowablePool::free.
PoolFreeOp(w, pl, h) ==
    IF ~pl.overgrow /\ Len(pl.vec) >= pl.len
    THEN [pool |-> pl, w |-> DropReusable(w, h)]
    ELSE LET r == Free(w, h)
         IN  [pool |-> [pl EXCEPT !.vec = <<r.g>> \o pl.vec], w |-> r.w]

\* Drop for GrowablePool: every idle block is dropped.
RECURSIVE DropAll(_, _)
DropAll(w, vec) ==
    IF vec = <<>> THEN w ELSE DropAll(DropGrowable(w, Head(vec)), Tail(vec))

\* ------------------------------------------------------------------ helpers
RemoveAt(s, i) == SubSeq(s, 1, i - 1) \o SubSeq(s, i + 1, Len(s))

\* The addresses the allocator answers k requests in a row with: the k lowest
\* free ones in increasing order; none when fewer than k are free.
AddrSeqs(w, k) ==
    {s \in [1 .. k -> FreeAddrs(w)] :
        /\ \A i, j \in 1 .. k : i < j => s[i] < s[j]
        /\ \A a \in FreeAddrs(w) :
              (\A i \in 1 .. k : s[i] # a) => \A i \in 1 .. k : s[i] < a}

\* The number of allocations a build or a top-up of n blocks asks for.
Asks(len, n) == IF len = 0 THEN 0 ELSE Max(n, 1)

\* No call so far had undefined behaviour; nothing is said about what a
\* program does after a Layout::from_size_align_unchecked that breaks the
\* conditions of Layout, so no operation is modelled from there on.
Defined == "alloc_layout" \notin sys.faults

\* The state an operation starts from: the per-operation counter is reset.
Begin == [sys EXCEPT !.calls = 0]

NoArg == [ty |-> Type(0, 1), val |-> 0]

\* ----------------------------------------------------------------- initial
Init ==
    /\ sys = [heap |-> [a \in Addr |-> NoAlloc],
              mem |-> [a \in Addr |-> Garbage],
              drops |-> [v \in 1 .. MaxVals |-> 0],
              data |-> [v \in 1 .. MaxVals |-> v],
              calls |-> 0,
              faults |-> {}]
    /\ blocks = <<>>
    /\ handles = {}
    /\ moved = {}
    /\ pool = NoPool
    /\ clone = NoPool
    /\ pc = "idle"
    /\ arg = NoArg
    /\ nextVal = 1
    /\ op = "init"

\* ---------------------------------------------------- operations on blocks
\* let b = Growable::with_capacity(len, ptr_alignment); with len among Ls
\* and ptr_alignment among As; a panic unwinds and leaves no block
NewBlock(Ls, As) ==
    /\ pc = "idle"
    /\ Defined
    /\ Len(blocks) < MaxBlocks
    /\ \E len \in Ls, al \in As :
          IF WithCapacityPanics(len, al)
          THEN /\ sys' = Begin
               /\ blocks' = blocks
               /\ op' = "panic"
          ELSE \E p \in Addr :
                  /\ Avail(sys, Growable(0, 1, Dangling), p)
                  /\ LET r == WithCapacity(Begin, len, al, p)
                     IN  /\ sys' = r.w
                         /\ blocks' = Append(blocks, r.g)
                  /\ op' = "with_capacity"
    /\ UNCHANGED <<clone, handles, moved, pool, pc, arg, nextVal>>

\* let c = b.clone(); the clone may be one block more than MaxBlocks
CloneBlock ==
    /\ pc = "idle"
    /\ Defined
    /\ Len(blocks) <= MaxBlocks
    /\ \E i \in 1 .. Len(blocks), p \in Addr :
          /\ Avail(sys, Growable(0, 1, Dangling), p)
          /\ LET r == CloneGrowable(Begin, blocks[i], p)
             IN  /\ sys' = r.w
                 /\ blocks' = Append(blocks, r.g)
    /\ op' = "clone_block"
    /\ UNCHANGED <<clone, handles, moved, pool, pc, arg, nextVal>>

\* drop(b);
DropBlock ==
    /\ pc = "idle"
    /\ Defined
    /\ \E i \in 1 .. Len(blocks) :
          /\ sys' = DropGrowable(Begin, blocks[i])
          /\ blocks' = RemoveAt(blocks, i)
    /\ op' = "drop_block"
    /\ UNCHANGED <<clone, handles, moved, pool, pc, arg, nextVal>>

\* let h = b.consume(t); with T among Ts
ConsumeBlock(Ts) ==
    /\ pc = "idle"
    /\ Defined
    /\ nextVal <= MaxVals
    /\ Cardinality(handles) < MaxHandles
    /\ \E i \in 1 .. Len(blocks), ty \in Ts, p \in Addr :
          /\ Avail(sys, blocks[i], p)
          /\ LET r == Consume(Begin, blocks[i], ty, nextVal, p)
             IN  /\ sys' = r.w
                 /\ handles' = handles \cup {r.h}
          /\ blocks' = RemoveAt(blocks, i)
    /\ nextVal' = nextVal + 1
    /\ op' = "consume"
    /\ UNCHANGED <<clone, moved, pool, pc, arg>>

\* --------------------------------------------------- operations on handles
\* let b = Reusable::free(h);
FreeHandle ==
    /\ pc = "idle"
    /\ Defined
    /\ Len(blocks) < MaxBlocks
    /\ \E h \in handles :
          /\ LET r == Free(Begin, h)
             IN  /\ sys' = r.w
                 /\ blocks' = Append(blocks, r.g)
          /\ handles' = handles \ {h}
    /\ op' = "free"
    /\ UNCHANGED <<clone, moved, pool, pc, arg, nextVal>>

\* let (t, b) = Reusable::free_move(h);
FreeMoveHandle ==
    /\ pc = "idle"
    /\ Defined
    /\ Len(blocks) < MaxBlocks
    /\ \E h \in handles :
          /\ LET r == FreeMove(Begin, h)
             IN  /\ sys' = r.w
                 /\ blocks' = Append(blocks, r.g)
                 /\ moved' = moved \cup {r.t}
          /\ handles' = handles \ {h}
    /\ op' = "free_move"
    /\ UNCHANGED <<clone, pool, pc, arg, nextVal>>

\* drop(t); of a value that free_move gave to the caller
DropMoved ==
    /\ pc = "idle"
    /\ Defined
    /\ \E v \in moved :
          /\ v # Garbage
          /\ sys' = [Begin EXCEPT !.drops[v] = @ + 1]
          /\ moved' = moved \ {v}
    /\ op' = "drop_moved"
    /\ UNCHANGED <<clone, blocks, handles, pool, pc, arg, nextVal>>

\* drop(h);
DropHandle ==
    /\ pc = "idle"
    /\ Defined
    /\ \E h \in handles :
          /\ sys' = DropReusable(Begin, h)
          /\ handles' = handles \ {h}
    /\ op' = "drop_handle"
    /\ UNCHANGED <<clone, blocks, moved, pool, pc, arg, nextVal>>

\* let h2 = replace(h, u); with U among Ts
ReplaceHandle(Ts) ==
    /\ pc = "idle"
    /\ Defined
    /\ nextVal <= MaxVals
    /\ \E h \in handles, ty \in Ts, p \in Addr :
          /\ Avail(sys, BlockOf(h), p)
          /\ LET r == Replace(Begin, h, ty, nextVal, p)
             IN  /\ sys' = r.w
                 /\ handles' = (handles \ {h}) \cup {r.h}
    /\ nextVal' = nextVal + 1
    /\ op' = "replace"
    /\ UNCHANGED <<clone, blocks, moved, pool, pc, arg>>

\* let h2 = h.clone();
CloneHandle ==
    /\ pc = "idle"
    /\ Defined
    /\ nextVal <= MaxVals
    /\ Cardinality(handles) < MaxHandles
    /\ \E h \in handles, p \in Addr :
          /\ Avail(sys, Growable(0, 1, Dangling), p)
          /\ LET r == CloneReusable(Begin, h, nextVal, p)
             IN  /\ sys' = r.w
                 /\ handles' = handles \cup {r.h}
    /\ nextVal' = nextVal + 1
    /\ op' = "clone_handle"
    /\ UNCHANGED <<clone, blocks, moved, pool, pc, arg>>

\* ------------------------------------------------------ operations on pools
\* let pool = GrowablePool::builder()....build(); with a builder among Bs
BuildPool(Bs) ==
    /\ pc = "idle"
    /\ Defined
    /\ ~pool.built
    /\ \E cfg \in Bs :
          \E ps \in AddrSeqs(sys, Asks(cfg.per_growable_len, cfg.len)) :
             LET r == Build(Begin, cfg, ps \o <<Dangling>>)
             IN  /\ sys' = r.w
                 /\ pool' = r.pool
    /\ op' = "build"
    /\ UNCHANGED <<clone, blocks, handles, moved, pc, arg, nextVal>>

\* drop(pool);
DropPool ==
    /\ pc = "idle"
    /\ Defined
    /\ pool.built
    /\ sys' = DropAll(Begin, pool.vec)
    /\ pool' = NoPool
    /\ op' = "drop_pool"
    /\ UNCHANGED <<clone, blocks, handles, moved, pc, arg, nextVal>>

\* One call of GrowablePool::allocate(t) with the pool as it is: the Some
\* arm returns the handle, the None arm tops the pool up and calls allocate
\* again with the same t.
AllocateCall(w, ty, v) ==
    IF pool.vec # <<>>
    THEN /\ \E p \in Addr :
               /\ Avail(w, Head(pool.vec), p)
               /\ LET r == AllocatePop(w, pool, ty, v, p)
                  IN  /\ sys' = r.w
                      /\ pool' = r.pool
                      /\ handles' = handles \cup {r.h}
         /\ pc' = "idle"
         /\ arg' = NoArg
         /\ op' = "allocate"
    ELSE /\ \E ps \in AddrSeqs(w, Asks(pool.per_growable_len, TopUp(pool))) :
               LET r == AllocateRefill(w, pool, ps \o <<Dangling>>)
               IN  /\ sys' = r.w
                   /\ pool' = r.pool
         /\ pc' = "retry"
         /\ arg' = [ty |-> ty, val |-> v]
         /\ op' = "top_up"
         /\ UNCHANGED handles

\* let h = pool.allocate(t); with T among Ts
PoolAllocate(Ts) ==
    /\ pc = "idle"
    /\ Defined
    /\ pool.built
    /\ nextVal <= MaxVals
    /\ Cardinality(handles) < MaxHandles
    /\ \E ty \in Ts : AllocateCall(Begin, ty, nextVal)
    /\ nextVal' = nextVal + 1
    /\ UNCHANGED <<clone, blocks, moved>>

\* The recursive call self.allocate(t) that follows the top-up.
PoolAllocateRetry ==
    /\ pc = "retry"
    /\ Defined
    /\ AllocateCall(sys, arg.ty, arg.val)
    /\ UNCHANGED <<clone, blocks, moved, nextVal>>

\* pool.free(h);
PoolFree ==
    /\ pc = "idle"
    /\ Defined
    /\ pool.built
    /\ \E h \in handles :
          /\ LET r == PoolFreeOp(Begin, pool, h)
             IN  /\ sys' = r.w
                 /\ pool' = r.pool
          /\ handles' = handles \ {h}
    /\ op' = "pool_free"
    /\ UNCHANGED <<clone, blocks, moved, pc, arg, nextVal>>

\* let clone = pool.clone();
ClonePool ==
    /\ pc = "idle"
    /\ Defined
    /\ pool.built
    /\ ~clone.built
    /\ \E ps \in AddrSeqs(sys, Asks(pool.per_growable_len, pool.len)) :
          LET r == ClonePoolOp(Begin, pool, ps \o <<Dangling>>)
          IN  /\ sys' = r.w
              /\ clone' = r.pool
    /\ op' = "clone_pool"
    /\ UNCHANGED <<blocks, handles, moved, pool, pc, arg, nextVal>>

\* drop(clone);
DropClone ==
    /\ pc = "idle"
    /\ Defined
    /\ clone.built
    /\ sys' = DropAll(Begin, clone.vec)
    /\ clone' = NoPool
    /\ op' = "drop_clone"
    /\ UNCHANGED <<blocks, handles, moved, pool, pc, arg, nextVal>>

\* ---------------------------------------------------------- specifications
\* Blocks and handles without a pool.
BlockNext ==
    \/ NewBlock(CapLens, CapAligns \cup BadAligns)
    \/ CloneBlock
    \/ DropBlock
    \/ ConsumeBlock(Types)
    \/ FreeHandle
    \/ FreeMoveHandle
    \/ DropMoved
    \/ DropHandle
    \/ ReplaceHandle(Types)
    \/ CloneHandle

BlockSpec == Init /\ [][BlockNext]_vars

\* A pool, with handles of its own and handles made from standalone blocks.
PoolNext ==
    \/ BuildPool(Builders)
    \/ PoolAllocate(PoolTypes)
    \/ PoolAllocateRetry
    \/ PoolFree
    \/ DropHandle
    \/ NewBlock({0}, {1})
    \/ ConsumeBlock(PoolTypes)

PoolSpec == Init /\ [][PoolNext]_vars

\* A pool and its clone.
ClonePoolNext ==
    \/ BuildPool(Builders)
    \/ PoolAllocate(PoolTypes)
    \/ PoolAllocateRetry
    \/ PoolFree
    \/ ClonePool
    \/ DropClone

ClonePoolSpec == Init /\ [][ClonePoolNext]_vars

\* Every way an allocation is released or grown: blocks of every capacity,
\* handles, a pool that stores and discards.
ReleaseNext ==
    \/ NewBlock(CapLens, CapAligns)
    \/ DropBlock
    \/ ConsumeBlock(Types)
    \/ DropHandle
    \/ BuildPool(FewBuilders)
    \/ PoolAllocate(PoolTypes)
    \/ PoolAllocateRetry
    \/ PoolFree
    \/ DropPool

ReleaseSpec == Init /\ [][ReleaseNext]_vars

\* Blocks up to the largest length there is.
LayoutNext ==
    \/ NewBlock(BigLens, CapAligns)
    \/ DropBlock
    \/ ConsumeBlock(Types)
    \/ FreeHandle
    \/ DropHandle
    \/ ReplaceHandle(Types)

LayoutSpec == Init /\ [][LayoutNext]_vars

\* Every operation, on blocks that start empty.
Next ==
    \/ NewBlock({0}, {1})
    \/ CloneBlock
    \/ DropBlock
    \/ ConsumeBlock(PoolTypes)
    \/ FreeHandle
    \/ FreeMoveHandle
    \/ DropMoved
    \/ DropHandle
    \/ ReplaceHandle(PoolTypes)
    \/ CloneHandle
    \/ BuildPool(FewBuilders)
    \/ DropPool
    \/ PoolAllocate(PoolTypes)
    \/ PoolAllocateRetry
    \/ PoolFree

Spec == Init /\ [][Next]_vars

\* ------------------------------------------------------------------ claims
\* The value v is owned: by a handle, by the caller after free_move, or by
\* an allocate call that has not placed it yet.
Held(v) ==
    \/ \E h \in handles : h.val = v
    \/ v \in moved
    \/ pc = "retry" /\ arg.val = v

\* C1: the destructor of a value has not run while the value is owned (by a
\* handle or, after free_move, by the caller) and has run exactly once when
\* the value is gone, whichever way its handle ended: drop, free, free_move,
\* pool free (stored or discarded), replace.  No destructor runs on bytes
\* that hold no value.
C1_DropExactlyOnce ==
    /\ \A v \in 1 .. MaxVals :
          sys.drops[v] = IF v < nextVal /\ ~Held(v) THEN 1 ELSE 0
    /\ "drop_garbage" \notin sys.faults

\* Every value has been made and is gone, the last one through free_move
\* and the caller's drop.
C1_Witness ==
    /\ op = "drop_moved"
    /\ nextVal > MaxVals
    /\ \A v \in 1 .. MaxVals : ~Held(v) /\ sys.drops[v] = 1

\* The owners of the allocation at address a.
Owns(g, a) == g.len # 0 /\ g.ptr = a

OwnerCount(a) ==
    Cardinality({i \in 1 .. Len(blocks) : Owns(blocks[i], a)})
    + Cardinality({h \in handles : Owns(h, a)})
    + (IF pool.built
       THEN Cardinality({i \in 1 .. Len(pool.vec) : Owns(pool.vec[i], a)})
       ELSE 0)

\* C2: every live allocation has exactly one owner among the standalone
\* blocks, the handles and the idle blocks of the pool, an address that is
\* not allocated has none, and the allocator was never asked to release or
\* to grow an allocation that is not live.
C2_SingleOwner ==
    /\ \A a \in Addr :
          OwnerCount(a) = IF sys.heap[a] = NoAlloc THEN 0 ELSE 1
    /\ sys.faults \cap {"dealloc_dead", "grow_dead"} = {}

\* A pool free has stored a block while a standalone block and a handle
\* own allocations of their own.
C2_Witness ==
    /\ op = "pool_free"
    /\ pool.built /\ \E i \in 1 .. Len(pool.vec) : pool.vec[i].len # 0
    /\ \E i \in 1 .. Len(blocks) : blocks[i].len # 0
    /\ \E h \in handles : h.len # 0

\* C3: with overgrow disabled the pool holds exactly its capacity right
\* after build, and at most its capacity after every completed allocate or
\* free, also a free of a handle that did not come from the pool.
C3_PoolBounded ==
    pool.built /\ ~pool.overgrow =>
        /\ op = "build" => PoolLen(pool) = pool.len
        /\ pc = "idle" => PoolLen(pool) <= pool.len

\* A free has completed on a pool of capacity >= 1 that is full, after
\* every value was made.
C3_Witness ==
    /\ op = "pool_free"
    /\ pool.built /\ ~pool.overgrow
    /\ pool.len >= 1 /\ PoolLen(pool) = pool.len
    /\ nextVal > MaxVals

\* C7 as stated: with overgrow disabled the idle count never exceeds the
\* capacity in any state, the states inside allocate included.
C7_NeverAboveCapacity ==
    pool.built /\ ~pool.overgrow => PoolLen(pool) <= pool.len

\* C7 as amended: with overgrow disabled the idle count never exceeds
\* max(capacity, 1) in any state; it exceeds the capacity only for capacity
\* 0, inside allocate between the top-up and the removal, where it is 1.
C7_NeverAboveTopUp ==
    pool.built /\ ~pool.overgrow =>
        /\ PoolLen(pool) <= Max(pool.len, 1)
        /\ PoolLen(pool) > pool.len => pc = "retry" /\ pool.len = 0

\* Inside allocate, after the top-up of a pool of capacity 0.
C7_Witness ==
    /\ pc = "retry"
    /\ pool.built /\ ~pool.overgrow /\ pool.len = 0
    /\ PoolLen(pool) = 1

\* C8: free adds one idle block when overgrow is enabled or the pool is
\* below its capacity; otherwise the count is unchanged and the block of
\* the handle is released.  With capacity 0 and overgrow disabled every
\* completed call leaves the pool empty.
C8_FreeEffect ==
    [][/\ op' = "pool_free" =>
            IF pool.overgrow \/ PoolLen(pool) < pool.len
            THEN PoolLen(pool') = PoolLen(pool) + 1
            ELSE /\ PoolLen(pool') = PoolLen(pool)
                 /\ \A h \in handles \ handles' :
                       h.len # 0 => sys'.heap[h.ptr] = NoAlloc
       /\ pool'.built /\ pool'.len = 0 /\ ~pool'.overgrow /\ pc' = "idle" =>
            PoolLen(pool') = 0]_vars

\* A pool of capacity 0 with overgrow holds two blocks after a free.
C8_Witness ==
    /\ op = "pool_free"
    /\ pool.built /\ pool.overgrow /\ pool.len = 0
    /\ PoolLen(pool) = 2

\* The blocks of vec are fresh in the step: of the pool's default length
\* and alignment, at addresses that were free before and differ.
FreshDefaults(vec) ==
    /\ \A i \in 1 .. Len(vec) :
          /\ vec[i].len = pool.per_growable_len
          /\ vec[i].ptr_alignment = pool.per_growable_ptr_alignment
          /\ vec[i].len # 0 =>
                /\ sys.heap[vec[i].ptr] = NoAlloc
                /\ sys'.heap[vec[i].ptr] =
                      [len |-> vec[i].len, align |-> vec[i].ptr_alignment]
    /\ \A i, j \in 1 .. Len(vec) :
          i # j /\ vec[i].len # 0 => vec[i].ptr # vec[j].ptr

\* C9: allocate on a pool with k >= 1 idle blocks leaves k - 1; on an empty
\* pool it makes max(capacity, 1) fresh default blocks, and the one retry
\* that follows takes a block and leaves max(capacity, 1) - 1.
C9_AllocateEffect ==
    [][/\ pc = "idle" /\ op' = "allocate" =>
            PoolLen(pool) >= 1 /\ PoolLen(pool') = PoolLen(pool) - 1
       /\ op' = "top_up" =>
            /\ pc = "idle" /\ pool.vec = <<>>
            /\ PoolLen(pool') = Max(pool.len, 1)
            /\ FreshDefaults(pool'.vec)
       /\ pc = "retry" =>
            /\ op' = "allocate" /\ pc' = "idle"
            /\ PoolLen(pool') = Max(pool.len, 1) - 1]_vars

\* The retry has returned on a pool of capacity 2 that was used up: one
\* block is left.
C9_Witness ==
    /\ op = "allocate"
    /\ pool.built /\ pool.len = 2 /\ PoolLen(pool) = 1
    /\ nextVal > MaxVals
    /\ Cardinality(handles) = MaxHandles

\* The handle h lives in the block g that allocate took: in g itself when g
\* fits the type of h, else in what grow made of g, whose old allocation is
\* gone or is the one of h.
Backs(g, h) ==
    IF g.len # 0 /\ g.len >= h.ty.size /\ g.ptr_alignment >= h.ty.align
    THEN BlockOf(h) = g
    ELSE /\ h.len = Max(g.len, h.ty.size)
         /\ g.len # 0 => sys'.heap[g.ptr] = NoAlloc \/ h.ptr = g.ptr

\* C4: free stores the block of the handle at the front, and allocate takes
\* the block at the front, so that the block stored last is taken first.
C4_Lifo ==
    [][/\ op' = "pool_free" /\ PoolLen(pool') > PoolLen(pool) =>
            \E h \in handles \ handles' :
                Head(pool'.vec) = BlockOf(h) /\ Tail(pool'.vec) = pool.vec
       /\ op' = "allocate" =>
            /\ pool'.vec = Tail(pool.vec)
            /\ \E h \in handles' \ handles : Backs(Head(pool.vec), h)]_vars

\* allocate A, allocate B, free B, free A, allocate on a pool of capacity 0
\* with overgrow: the third value is in the block of A at address 1, and the
\* block of B at address 2 is idle.
C4_Witness ==
    /\ op = "allocate"
    /\ pool.built /\ pool.overgrow /\ pool.len = 0
    /\ sys.drops[1] = 1 /\ sys.drops[2] = 1
    /\ \E h \in handles : h.val = 3 /\ h.ptr = 1 /\ h.len = 2
    /\ PoolLen(pool) = 1 /\ pool.vec[1].ptr = 2

\* C5 as stated, for two requests of non-zero size in a row on one block:
\* replace(h, u) frees h, whose block was grown for the type T of h, and
\* consumes u: U into the same block; afterwards the length is >= the sizes
\* of T and U and the alignment >= the alignments of T and U.
C5_Monotone ==
    [][op' = "replace" =>
          \A h \in handles \ handles', h2 \in handles' \ handles :
              h.ty.size > 0 /\ h2.ty.size > 0 =>
                  /\ h2.len >= h.ty.size /\ h2.len >= h2.ty.size
                  /\ h2.ptr_alignment >= h.ty.align
                  /\ h2.ptr_alignment >= h2.ty.align]_vars

\* C5 as amended: a step that grows a block (consume, replace) leaves a
\* length >= the length before and >= the requested one, and an alignment
\* >= the requested one; a free or free_move gives the block back with the
\* length of the handle.  So the length is >= every length requested so
\* far, the alignment >= the one requested last.
C5_LengthMonotone ==
    [][/\ op' = "consume" =>
            \E i \in 1 .. Len(blocks) :
                /\ blocks' = RemoveAt(blocks, i)
                /\ \A h2 \in handles' \ handles :
                      /\ h2.len >= blocks[i].len /\ h2.len >= h2.ty.size
                      /\ h2.ptr_alignment >= h2.ty.align
       /\ op' = "replace" =>
            \A h \in handles \ handles', h2 \in handles' \ handles :
                /\ h2.len >= h.len /\ h2.len >= h.ty.size /\ h2.len >= h2.ty.size
                /\ h2.ptr_alignment >= h2.ty.align
       /\ op' \in {"free", "free_move"} =>
            \A h \in handles \ handles' : blocks'[Len(blocks')].len = h.len]_vars

\* A replace has put a u16 into a block that held 4 bytes aligned to 1: the
\* block keeps the 4 bytes and is aligned to 2.
C5_Witness ==
    /\ op = "replace"
    /\ \E h \in handles :
          h.ty = Type(2, 2) /\ h.len = 4 /\ h.ptr_alignment = 2

\* C6: every handle dereferences to the value that was consumed into it,
\* whatever the block held before, and no value was written into a block
\* too small or too weakly aligned for it.
C6_RoundTrip ==
    /\ \A h \in handles : Deref(sys, h) = h.val
    /\ "bad_write" \notin sys.faults

\* The third value, one byte, was consumed into a block of 4 bytes that
\* held a larger value before, and is read back.
C6_Witness ==
    /\ op = "consume"
    /\ \E h \in handles :
          /\ h.val = 3 /\ h.ty = Type(1, 1) /\ h.len = 4
          /\ sys.mem[h.ptr] = 3

\* C10: Reusable::free gives back a block with the address, the length and
\* the alignment of the handle, which are those of the live allocation, as
\* they were when consume made the handle; a value of size s > 0 consumed
\* into an empty block makes a handle, hence a freed block, of length s and
\* of the alignment of the type.
C10_FreeSameBlock ==
    [][/\ op' = "free" =>
            \E h \in handles \ handles' :
                LET g == blocks'[Len(blocks')]
                IN  /\ g.ptr = h.ptr /\ g.len = h.len
                    /\ g.ptr_alignment = h.ptr_alignment
                    /\ g.len # 0 =>
                          sys'.heap[g.ptr] = [len |-> g.len, align |-> g.ptr_alignment]
       /\ op' = "consume" =>
            \E i \in 1 .. Len(blocks) :
                /\ blocks' = RemoveAt(blocks, i)
                /\ \A h2 \in handles' \ handles :
                      /\ h2.len # 0 =>
                            sys'.heap[h2.ptr] = [len |-> h2.len, align |-> h2.ptr_alignment]
                      /\ blocks[i].len = 0 /\ h2.ty.size > 0 =>
                            /\ h2.len = h2.ty.size
                            /\ h2.ptr_alignment = h2.ty.align]_vars

\* The only value made, a u8, was consumed into an empty block and freed:
\* the block has 1 byte aligned to 1 and is the live allocation.
C10_Witness ==
    /\ op = "free"
    /\ nextVal = 2 /\ sys.drops[1] = 1
    /\ Len(blocks) = 1
    /\ blocks[1].len = 1 /\ blocks[1].ptr_alignment = 1
    /\ sys.heap[blocks[1].ptr] = [len |-> 1, align |-> 1]

\* The step made no call to the allocator: nothing was allocated or grown,
\* and no allocation was released.
Quiet ==
    /\ sys'.calls = 0
    /\ sys'.heap = sys.heap
    /\ "dealloc_dead" \notin sys'.faults

\* C11: with_capacity(0, a) makes a block of length 0 without a call to the
\* allocator; consuming a zero-sized value into a block of length 0 (by
\* consume or by replace) makes a handle of length 0 without a call, and
\* free and free_move of such a handle give back a block of length 0
\* without a call.  So every round that starts from with_capacity(0, 1)
\* leaves the allocator alone and recovers an empty block.
C11_ZeroSize ==
    [][/\ op' = "with_capacity" /\ blocks'[Len(blocks')].len = 0 => Quiet
       /\ op' = "consume" =>
            \E i \in 1 .. Len(blocks) :
                /\ blocks' = RemoveAt(blocks, i)
                /\ \A h2 \in handles' \ handles :
                      blocks[i].len = 0 /\ h2.ty.size = 0 =>
                          Quiet /\ h2.len = 0
       /\ op' = "replace" =>
            \A h \in handles \ handles', h2 \in handles' \ handles :
                h.len = 0 /\ h2.ty.size = 0 => Quiet /\ h2.len = 0
       /\ op' \in {"free", "free_move"} =>
            \A h \in handles \ handles' :
                h.len = 0 => Quiet /\ blocks'[Len(blocks')].len = 0]_vars

\* Every value was zero-sized and is gone, the last one by a free that gave
\* back an empty block; no allocation was ever made.
C11_Witness ==
    /\ op = "free"
    /\ nextVal > MaxVals
    /\ \A v \in 1 .. MaxVals : sys.drops[v] = 1
    /\ Len(blocks) = 1 /\ blocks[1].len = 0
    /\ \A a \in Addr : sys.heap[a] = NoAlloc

\* C12: with_capacity never returns a block whose alignment is not a power
\* of two, whatever the length, 0 included: the call panics, the caller
\* holds the blocks it held before, and the allocator was not called, so
\* that no allocation is left live.
C12_BadAlignmentPanics ==
    [][/\ op' = "with_capacity" =>
            /\ Len(blocks') = Len(blocks) + 1
            /\ IsPowerOfTwo(blocks'[Len(blocks')].ptr_alignment)
       /\ op' = "panic" =>
            /\ blocks' = blocks
            /\ Quiet
            /\ "alloc_layout" \notin sys'.faults]_vars

\* A call has panicked while a handle owned the only allocation: the
\* caller holds no block.
C12_Witness ==
    /\ op = "panic"
    /\ blocks = <<>>
    /\ \E h \in handles : h.len # 0
    /\ Cardinality({a \in Addr : sys.heap[a] # NoAlloc}) = 1

\* C13: build() of a pool configured with capacity 0 makes no call to the
\* allocator.
C13_BuildAllocatesNothing ==
    op = "build" /\ pool.built /\ pool.len = 0 => sys.calls = 0

\* C14: the drop of a handle runs the destructor of its value and, when the
\* length is not 0, releases its allocation, which was live with the layout
\* of the handle; no other allocation changes, the caller gets no block, and
\* the pool, its idle blocks and their number are what they were.
C14_DropReleases ==
    [][op' = "drop_handle" =>
          \E h \in handles \ handles' :
              /\ sys'.drops[h.val] = 1
              /\ h.len # 0 =>
                    /\ sys.heap[h.ptr] = [len |-> h.len, align |-> h.ptr_alignment]
                    /\ sys'.heap[h.ptr] = NoAlloc
              /\ \A a \in Addr : h.len = 0 \/ a # h.ptr => sys'.heap[a] = sys.heap[a]
              /\ blocks' = blocks
              /\ pool' = pool
              /\ sys'.faults = {}]_vars

\* The only value made was allocated from a pool of capacity 1, which is
\* empty since, and its handle was dropped: nothing is allocated any more
\* and the pool is still empty.
C14_Witness ==
    /\ op = "drop_handle"
    /\ nextVal = 2 /\ sys.drops[1] = 1
    /\ pool.built /\ pool.len = 1 /\ PoolLen(pool) = 0
    /\ blocks = <<>>
    /\ \A a \in Addr : sys.heap[a] = NoAlloc

\* C15: free_move gives the caller the value that was consumed into the
\* handle, whose destructor has not run, and a block with the address, the
\* length and the alignment of the handle, still allocated; consume into an
\* empty block makes a handle, hence such a block, of the size and the
\* alignment of the type of the value.
C15_FreeMovePair ==
    [][/\ op' = "free_move" =>
            \E h \in handles \ handles' :
                /\ h.val \notin moved /\ moved' = moved \cup {h.val}
                /\ sys'.drops[h.val] = 0
                /\ blocks' = Append(blocks, Growable(h.len, h.ptr_alignment, h.ptr))
                /\ h.len # 0 =>
                      sys'.heap[h.ptr] = [len |-> h.len, align |-> h.ptr_alignment]
                /\ "drop_garbage" \notin sys'.faults
       /\ op' = "consume" =>
            \E i \in 1 .. Len(blocks) :
                /\ blocks' = RemoveAt(blocks, i)
                /\ blocks[i].len = 0 =>
                      \A h2 \in handles' \ handles :
                          /\ h2.len = h2.ty.size
                          /\ h2.ptr_alignment = h2.ty.align]_vars

\* A [u8; 4] was consumed into an empty block and moved out again: the
\* caller owns the value, not yet dropped, and a block of 4 bytes aligned
\* to 1.
C15_Witness ==
    /\ op = "free_move"
    /\ nextVal = 2 /\ moved = {1} /\ sys.drops[1] = 0
    /\ Len(blocks) = 1
    /\ blocks[1].len = 4 /\ blocks[1].ptr_alignment = 1
    /\ sys.heap[blocks[1].ptr] = [len |-> 4, align |-> 1]

\* C16: pool.clone() makes a pool with the capacity, the default length,
\* the default alignment and the overgrow flag of the original, holding
\* capacity idle blocks of the default length and alignment, each in an
\* allocation made by the call, whatever the original holds; the original,
\* its idle blocks and the handles are unchanged, and no other allocation
\* is made or released.  Whatever is done to the original afterwards, the
\* idle blocks of the clone keep their allocations, which no idle block of
\* the original and no handle owns.
C16_CloneIsFresh ==
    [][/\ clone'.built =>
            \A i \in 1 .. Len(clone'.vec) :
                clone'.vec[i].len # 0 =>
                    /\ sys'.heap[clone'.vec[i].ptr] =
                          [len |-> clone'.vec[i].len,
                           align |-> clone'.vec[i].ptr_alignment]
                    /\ \A j \in 1 .. Len(pool'.vec) :
                          pool'.vec[j].len # 0 => pool'.vec[j].ptr # clone'.vec[i].ptr
                    /\ \A h \in handles' :
                          h.len # 0 => h.ptr # clone'.vec[i].ptr
       /\ op' = "clone_pool" =>
            /\ clone'.built
            /\ clone'.len = pool.len
            /\ clone'.per_growable_len = pool.per_growable_len
            /\ clone'.per_growable_ptr_alignment = pool.per_growable_ptr_alignment
            /\ clone'.overgrow = pool.overgrow
            /\ PoolLen(clone') = pool.len
            /\ FreshDefaults(clone'.vec)
            /\ \A a \in Addr :
                  (\A i \in 1 .. Len(clone'.vec) : clone'.vec[i].ptr # a) =>
                      sys'.heap[a] = sys.heap[a]
            /\ pool' = pool /\ handles' = handles
            /\ sys'.faults = {}]_vars

\* A pool of capacity 1 with overgrow holds two idle blocks, one of them
\* grown to 4 bytes, when it is cloned: the clone holds one block of the
\* default 2 bytes.
C16_Witness ==
    /\ op = "clone_pool"
    /\ pool.len = 1 /\ PoolLen(pool) = 2
    /\ \E i \in 1 .. 2 : pool.vec[i].len = 4
    /\ PoolLen(clone) = 1 /\ clone.vec[1].len = 2

\* C17: b.clone() makes a block of the length and the alignment of b; for
\* length 0 the allocator is not called, else the clone owns an allocation
\* made by the call, at an address that was free and is not the one of b,
\* which holds no value (nothing is copied), and nothing else changes in
\* the heap.  Values consumed into the two blocks are independent: a
\* consume or a replace leaves every other handle its value.
C17_CloneBlock ==
    [][/\ op' = "clone_block" =>
            \E i \in 1 .. Len(blocks) :
                LET b == blocks[i]
                    c == blocks'[Len(blocks')]
                IN  /\ blocks' = Append(blocks, c)
                    /\ c.len = b.len /\ c.ptr_alignment = b.ptr_alignment
                    /\ IF c.len = 0 THEN Quiet
                       ELSE /\ c.ptr # b.ptr
                            /\ sys.heap[c.ptr] = NoAlloc
                            /\ sys'.heap[c.ptr] = [len |-> c.len, align |-> c.ptr_alignment]
                            /\ sys'.mem[c.ptr] = Garbage
                            /\ sys'.calls = 1
                            /\ \A a \in Addr \ {c.ptr} :
                                  /\ sys'.heap[a] = sys.heap[a]
                                  /\ sys'.mem[a] = sys.mem[a]
                    /\ sys'.faults = {}
       /\ op' \in {"consume", "replace"} =>
            \A h \in handles \cap handles' :
                /\ Deref(sys', h) = h.val
                /\ \A h2 \in handles' \ handles : h2.len # 0 => h2.ptr # h.ptr]_vars

\* A block grown to 4 bytes by a value that is gone has been cloned: the
\* caller holds two blocks of 4 bytes at different addresses.
C17_Witness ==
    /\ op = "clone_block"
    /\ sys.drops[1] = 1
    /\ Len(blocks) = 2
    /\ blocks[1].len = 4 /\ blocks[2].len = 4
    /\ blocks[1].ptr_alignment = blocks[2].ptr_alignment
    /\ blocks[1].ptr # blocks[2].ptr

\* C18: h.clone() makes one new handle of the type of h, whose block has
\* exactly the size and the alignment of the type, in an allocation made by
\* the call (none for a zero-sized type) that is not the one of h; the new
\* handle dereferences to a value equal to the one h dereferences to; h,
\* its value and its block are unchanged, no destructor runs and no other
\* allocation changes.
C18_CloneHandle ==
    [][op' = "clone_handle" =>
          \E h \in handles :
              \E h2 \in handles' \ handles :
                  /\ handles' = handles \cup {h2}
                  /\ h2.ty = h.ty
                  /\ h2.len = h.ty.size /\ h2.ptr_alignment = h.ty.align
                  /\ h2.len # 0 =>
                        /\ h2.ptr # h.ptr
                        /\ sys.heap[h2.ptr] = NoAlloc
                        /\ sys'.heap[h2.ptr] = [len |-> h2.len, align |-> h2.ptr_alignment]
                  /\ \A a \in Addr :
                        h2.len = 0 \/ a # h2.ptr =>
                            /\ sys'.heap[a] = sys.heap[a]
                            /\ sys'.mem[a] = sys.mem[a]
                  /\ Deref(sys', h) = Deref(sys, h)
                  /\ Deref(sys', h2) # Deref(sys', h)
                  /\ sys'.data[Deref(sys', h2)] = sys'.data[Deref(sys', h)]
                  /\ sys'.drops = sys.drops
                  /\ blocks' = blocks
                  /\ sys'.faults = {}]_vars

\* A u8 lives in a block of 4 bytes and its handle was cloned: the clone
\* has a block of 1 byte and an equal value.
C18_Witness ==
    /\ op = "clone_handle"
    /\ \E h, h2 \in handles :
          /\ h.ty = Type(1, 1) /\ h.len = 4
          /\ h2.ty = Type(1, 1) /\ h2.len = 1
          /\ h2.val # h.val
          /\ sys.data[Deref(sys, h2)] = sys.data[Deref(sys, h)]

\* The block g is not empty and is large enough and aligned enough for ty.
Fits(g, ty) ==
    g.len # 0 /\ g.len >= ty.size /\ g.ptr_alignment >= ty.align

\* C19: a value consumed into a block that is not empty and fits its type,
\* by consume, by replace or by a pool allocate that takes such an idle
\* block, is placed without a call to the allocator, and its handle has the
\* address, the length and the alignment the block had.
C19_FitsWithoutAllocation ==
    [][/\ op' = "consume" =>
            \E i \in 1 .. Len(blocks) :
                /\ blocks' = RemoveAt(blocks, i)
                /\ \A h2 \in handles' \ handles :
                      Fits(blocks[i], h2.ty) =>
                          Quiet /\ BlockOf(h2) = blocks[i]
       /\ op' = "replace" =>
            \A h \in handles \ handles', h2 \in handles' \ handles :
                Fits(BlockOf(h), h2.ty) =>
                    Quiet /\ BlockOf(h2) = BlockOf(h)
       /\ op' = "allocate" =>
            \A h2 \in handles' \ handles :
                Fits(Head(pool.vec), h2.ty) =>
                    /\ sys'.heap = sys.heap
                    /\ sys'.calls = IF pc = "retry" THEN sys.calls ELSE 0
                    /\ "dealloc_dead" \notin sys'.faults
                    /\ BlockOf(h2) = Head(pool.vec)]_vars

\* A pool allocate has placed a u16 in an idle block of 4 bytes without a
\* call to the allocator.
C19_Witness ==
    /\ op = "allocate"
    /\ sys.calls = 0
    /\ \E h \in handles :
          h.val = nextVal - 1 /\ h.ty = Type(2, 2) /\ h.len = 4

\* C20: a consume or a replace leaves the block with exactly the larger of
\* the length it had and the size of the value, and a free or a free_move
\* gives the block back with the length of the handle.  The length so never
\* decreases from round to round, and a block that started with length 0
\* has, after any rounds, the largest of the sizes of the values it held.
C20_HighWaterMark ==
    [][/\ op' = "consume" =>
            \E i \in 1 .. Len(blocks) :
                /\ blocks' = RemoveAt(blocks, i)
                /\ \A h2 \in handles' \ handles :
                      h2.len = Max(blocks[i].len, h2.ty.size)
       /\ op' = "replace" =>
            \A h \in handles \ handles', h2 \in handles' \ handles :
                h2.len = Max(h.len, h2.ty.size)
       /\ op' \in {"free", "free_move"} =>
            \E h \in handles \ handles' :
                blocks' = Append(blocks, Growable(h.len, h.ptr_alignment, h.ptr))
       /\ \A h \in handles' : h.len >= h.ty.size]_vars

\* Three values were made and two are gone; the last one, a u8, was put by
\* replace into the only block there is, which has the 4 bytes of the
\* largest value.
C20_Witness ==
    /\ op = "replace"
    /\ nextVal > MaxVals
    /\ sys.drops[1] = 1 /\ sys.drops[2] = 1
    /\ blocks = <<>>
    /\ \E h \in handles :
          /\ handles = {h}
          /\ h.val = 3 /\ h.ty = Type(1, 1) /\ h.len = 4
    /\ Cardinality({a \in Addr : sys.heap[a] # NoAlloc}) = 1

\* C21: every handle records a length >= the size of the type of its value
\* and an alignment >= the alignment of that type, and when the type has a
\* size the handle points to a live allocation that large and that aligned:
\* whatever the block was, grow made it fit before the value was written.
C21_HandleFits ==
    \A h \in handles :
        /\ h.len >= h.ty.size
        /\ h.ptr_alignment >= h.ty.align
        /\ h.ty.size # 0 =>
              /\ h.ptr \in Addr
              /\ sys.heap[h.ptr].len >= h.ty.size
              /\ sys.heap[h.ptr].align >= h.ty.align

\* The first value, the only one of 4 bytes, left a block of 4 bytes
\* aligned to 1, long enough but under-aligned for the u16 that replace has
\* put into it: the handle has 4 bytes aligned to 2.
C21_Witness ==
    /\ op = "replace"
    /\ nextVal = 3 /\ sys.drops[1] = 1
    /\ \E h \in handles :
          /\ h.val = 2 /\ h.ty = Type(2, 2)
          /\ h.len = 4 /\ h.ptr_alignment = 2
          /\ sys.heap[h.ptr] = [len |-> 4, align |-> 2]

\* Every block there is: standalone, inside a handle, idle in the pool.
AllBlocks ==
    {blocks[i] : i \in 1 .. Len(blocks)}
    \cup {BlockOf(h) : h \in handles}
    \cup (IF pool.built THEN {pool.vec[i] : i \in 1 .. Len(pool.vec)} ELSE {})

\* C22: every block, standalone, inside a handle or idle in the pool, has
\* an alignment that is a power of two; its length is 0 exactly when its
\* address is the dangling sentinel; and a block of length > 0 is the one
\* owner of a live allocation of its length and alignment.
C22_BlockInvariant ==
    \A b \in AllBlocks :
        /\ IsPowerOfTwo(b.ptr_alignment)
        /\ b.len = 0 <=> b.ptr = Dangling
        /\ b.len > 0 =>
              /\ b.ptr \in Addr
              /\ sys.heap[b.ptr] = [len |-> b.len, align |-> b.ptr_alignment]
              /\ OwnerCount(b.ptr) = 1

\* A standalone block of 2 bytes, a handle of a zero-sized value in an
\* empty block, a handle in a block of 4 bytes and an idle block of the
\* pool exist together.
C22_Witness ==
    /\ pc = "idle"
    /\ \E i \in 1 .. Len(blocks) : blocks[i].len = 2
    /\ \E h \in handles : h.len = 0 /\ h.ptr = Dangling
    /\ \E h \in handles : h.len = 4
    /\ pool.built /\ PoolLen(pool) >= 1 /\ pool.vec[1].len # 0

\* C23: every deallocate and every grow names an allocation that is live,
\* with the length and the alignment it was last allocated or grown with,
\* on every path: the drop of a block, the drop of a handle, the discard
\* of a pool free, the drop of a pool, and both branches of grow; a block
\* of length 0, whose address is no allocation, is never deallocated.
C23_ExactLayouts ==
    sys.faults \cap {"dealloc_layout", "grow_layout", "dealloc_dead", "grow_dead"} = {}

\* A pool of capacity 1 without overgrow holds a block that was reallocated
\* from the default 2 bytes to 4, and, being full, has discarded the handle
\* it was given last: only the idle block is allocated.
C23_Witness ==
    /\ op = "pool_free"
    /\ pool.built /\ ~pool.overgrow /\ pool.len = 1 /\ PoolLen(pool) = 1
    /\ handles = {} /\ blocks = <<>>
    /\ nextVal = 3 /\ sys.drops[1] = 1 /\ sys.drops[2] = 1
    /\ pool.vec[1].len = 4
    /\ Cardinality({a \in Addr : sys.heap[a] # NoAlloc}) = 1

\* C24, for values that have a size: every layout that grow hands to the
\* allocator when such a value is consumed is valid: its alignment is a
\* power of two and its length rounded up to the alignment does not exceed
\* isize::MAX.
C24_GrowLayoutsValid ==
    [][op' \in {"consume", "replace"} =>
          \A h2 \in handles' \ handles :
              h2.ty.size > 0 => "alloc_layout" \notin sys'.faults]_vars

\* C25: consuming a zero-sized value, by consume or by replace, makes no
\* call to the allocator, whatever the block: empty, or not empty with any
\* length and alignment, an alignment below the one of the type included.
C25_ZeroSizedNeverAllocates ==
    [][op' \in {"consume", "replace"} =>
          \A h2 \in handles' \ handles :
              h2.ty.size = 0 => Quiet]_vars

====
